---- MODULE Spec2Model ----
(***************************************************************************)
(* Verification model of python-astm: the framing codec (astm/codec.py),   *)
(* the shared link layer (astm/protocol.py), the client engine with its    *)
(* emitter wrapper and record-flow state machine (astm/client.py) and the  *)
(* server request handler (astm/server.py).                                *)
(*                                                                         *)
(* Byte strings are sequences of integers 0..255.                          *)
(***************************************************************************)
EXTENDS Integers, Sequences, FiniteSets, TLC

\* ------------------------------------------------------------------------
\* astm/constants.py
\* ------------------------------------------------------------------------
STX == 2
ETX == 3
EOT == 4
ENQ == 5
ACK == 6
NAK == 21
ETB == 23
LF == 10
CR == 13
CRLF == <<CR, LF>>
RECORD_SEP == 13
FIELD_SEP == 124
REPEAT_SEP == 92
COMPONENT_SEP == 94

\* ------------------------------------------------------------------------
\* Python byte-string helpers
\* ------------------------------------------------------------------------
Min(a, b) == IF a < b THEN a ELSE b
Max(a, b) == IF a < b THEN b ELSE a

\* s[i:j] with 0-based i and j >= 0 already resolved against len(s)
Slice(s, i, j) ==
    LET lo == Min(Max(i, 0), Len(s))
        hi == Min(Max(j, 0), Len(s))
    IN  IF hi <= lo THEN <<>> ELSE SubSeq(s, lo + 1, hi)

\* s[i:] and s[:-k] and s[-k:] of Python
From(s, i) == Slice(s, i, Len(s))
DropLast(s, k) == Slice(s, 0, Len(s) - k)
Last(s, k) == Slice(s, Len(s) - k, Len(s))

StartsWith(s, p) == Len(s) >= Len(p) /\ SubSeq(s, 1, Len(p)) = p
EndsWith(s, p) == Len(s) >= Len(p) /\ Last(s, Len(p)) = p

RECURSIVE Concat(_)
Concat(ss) == IF ss = <<>> THEN <<>> ELSE Head(ss) \o Concat(Tail(ss))

RECURSIVE JoinWith(_, _)
JoinWith(sep, ss) ==
    IF ss = <<>> THEN <<>>
    ELSE IF Len(ss) = 1 THEN Head(ss)
    ELSE Head(ss) \o <<sep>> \o JoinWith(sep, Tail(ss))

RECURSIVE SumBytes(_)
SumBytes(s) == IF s = <<>> THEN 0 ELSE Head(s) + SumBytes(Tail(s))

\* bytes.index / bytes.find (0-based, -1 when absent)
RECURSIVE FindFrom(_, _, _)
FindFrom(s, b, i) ==
    IF i > Len(s) THEN -1
    ELSE IF s[i] = b THEN i - 1
    ELSE FindFrom(s, b, i + 1)
Find(s, b) == FindFrom(s, b, 1)

\* bytes.split(sep) for a one-byte separator
RECURSIVE SplitOn(_, _)
SplitOn(s, sep) ==
    LET k == Find(s, sep)
    IN  IF k = -1 THEN <<s>>
        ELSE <<Slice(s, 0, k)>> \o SplitOn(From(s, k + 1), sep)

IsDigit(b) == b >= 48 /\ b <= 57
\* str(d).encode() for a single decimal digit
DigitByte(d) == 48 + d

\* one uppercase hexadecimal character
HexChar(d) == IF d < 10 THEN 48 + d ELSE 55 + d

\* ------------------------------------------------------------------------
\* astm/codec.py : checksum, framing, chunk detection, join
\* ------------------------------------------------------------------------
make_checksum(message) ==
    LET v == SumBytes(message) % 256
    IN  <<HexChar(v \div 16), HexChar(v % 16)>>

is_chunked_message(message) ==
    IF Len(message) < 5 THEN FALSE
    ELSE IF Find(message, ETB) = -1 THEN FALSE
    ELSE Find(message, ETB) = Len(message) - 5

\* c[2:-5]
ChunkBody(c) == Slice(c, 2, Len(c) - 5)

join(chunks) ==
    LET msg == <<DigitByte(1)>>
               \o Concat([i \in 1..Len(chunks) |-> ChunkBody(chunks[i])])
               \o <<ETX>>
    IN  <<STX>> \o msg \o make_checksum(msg) \o CRLF

\* decode_frame: [ok, err, seq, records]; records are the raw record strings
DecodeFailure(err) ==
    [ok |-> FALSE, err |-> err, seq |-> 0, records |-> <<>>]

decode_frame(frame) ==
    LET hasTrailer == EndsWith(frame, <<CR, ETX>>) \/ EndsWith(frame, <<ETB>>)
        body == IF EndsWith(frame, <<CR, ETX>>) THEN DropLast(frame, 2)
                ELSE DropLast(frame, 1)
    IN  IF ~hasTrailer THEN DecodeFailure("ValueError")
        ELSE IF body = <<>> \/ ~IsDigit(body[1])
        THEN DecodeFailure("ValueError")
        ELSE [ok |-> TRUE, err |-> "none", seq |-> body[1] - 48,
              records |-> SplitOn(From(body, 1), RECORD_SEP)]

\* decode_message: envelope check, checksum verification, frame decoding
decode_message(message) ==
    LET frame_cs == Slice(message, 1, Len(message) - 2)
        frame == DropLast(frame_cs, 2)
        cs == Last(frame_cs, 2)
    IN  IF ~(StartsWith(message, <<STX>>) /\ EndsWith(message, CRLF))
        THEN DecodeFailure("ValueError")
        ELSE IF frame = <<>> THEN DecodeFailure("IndexError")
        ELSE IF cs # make_checksum(frame) THEN DecodeFailure("AssertionError")
        ELSE decode_frame(frame)

\* record[0] of a decoded record: the bytes before the first field separator
RecordType(record) == Head(SplitOn(record, FIELD_SEP))

\* ------------------------------------------------------------------------
\* astm/codec.py : encoding.  A field is a tagged value:
\*   [k |-> "s", v |-> bytes]  a bytes / text scalar
\*   [k |-> "n", v |-> <<>>]   None
\*   [k |-> "i", v |-> n]      another scalar (an integer), sent as its text
\*   [k |-> "c", v |-> items]  a list of scalars (component)
\*   [k |-> "r", v |-> comps]  a list of lists (repeated component)
\* ------------------------------------------------------------------------
S(bytes) == [k |-> "s", v |-> bytes]
N == [k |-> "n", v |-> <<>>]
I(n) == [k |-> "i", v |-> n]
C(items) == [k |-> "c", v |-> items]
R(comps) == [k |-> "r", v |-> comps]

\* unicode(n).encode() of a natural number
RECURSIVE Decimal(_)
Decimal(n) ==
    IF n < 10 THEN <<DigitByte(n)>>
    ELSE Decimal(n \div 10) \o <<DigitByte(n % 10)>>

\* bytes.rstrip(b) for one byte
RECURSIVE RStrip(_, _)
RStrip(s, b) ==
    IF s # <<>> /\ s[Len(s)] = b THEN RStrip(DropLast(s, 1), b) ELSE s

EncodeScalar(f) ==
    IF f.k = "s" THEN f.v
    ELSE IF f.k = "i" THEN Decimal(f.v)
    ELSE <<>>

\* encode_component on a list of scalars
encode_component(component) ==
    RStrip(JoinWith(COMPONENT_SEP,
                    [i \in 1..Len(component) |-> EncodeScalar(component[i])]),
           COMPONENT_SEP)

\* encode_repeated_component on a list of components
encode_repeated_component(components) ==
    JoinWith(REPEAT_SEP,
             [i \in 1..Len(components) |-> encode_component(components[i].v)])

EncodeField(f) ==
    IF f.k = "c" THEN encode_component(f.v)
    ELSE IF f.k = "r" THEN encode_repeated_component(f.v)
    ELSE EncodeScalar(f)

encode_record(record) ==
    JoinWith(FIELD_SEP, [i \in 1..Len(record) |-> EncodeField(record[i])])

encode_message(seq, records) ==
    LET data == <<DigitByte(seq % 8)>>
                \o JoinWith(RECORD_SEP,
                            [i \in 1..Len(records) |->
                                encode_record(records[i])])
                \o <<CR, ETX>>
    IN  <<STX>> \o data \o make_checksum(data) \o CRLF

\* make_chunks(s, n): consecutive pieces of n bytes; an empty s, or n = 0,
\* gives no piece at all
RECURSIVE make_chunks(_, _)
make_chunks(s, n) ==
    IF s = <<>> \/ n <= 0 THEN <<>>
    ELSE <<Slice(s, 0, n)>> \o make_chunks(From(s, n), n)

\* split(msg, size) for a message and size that pass its assertions
split(msg, size) ==
    LET frame == msg[2] - 48
        body == Slice(msg, 2, Len(msg) - 6)
        pieces == make_chunks(body, size - 7)
        n == Len(pieces)
        Item(i) ==
            IF i < n
            THEN <<DigitByte((i - 1 + frame) % 8)>> \o pieces[i] \o <<ETB>>
            ELSE <<DigitByte((Max(n - 2, 0) + frame + 1) % 8)>> \o pieces[n]
                 \o <<CR, ETX>>
    IN  [i \in 1..n |-> <<STX>> \o Item(i) \o make_checksum(Item(i)) \o CRLF]

\* the assertions at the head of split, and chunks[-1] of an empty list
SplitRaises(msg, size) ==
    IF ~(/\ Slice(msg, 0, 1) = <<STX>>
         /\ Len(msg) >= 2 /\ IsDigit(msg[2])
         /\ EndsWith(Last(msg, 6), CRLF)
         /\ size >= 7)
    THEN "AssertionError"
    ELSE IF make_chunks(Slice(msg, 2, Len(msg) - 6), size - 7) = <<>>
    THEN "IndexError"
    ELSE "none"

\* make_checksum looks at message[0] before it sums the bytes
MakeChecksumRaises(message) ==
    IF message = <<>> THEN "IndexError" ELSE "none"

\* decode_component: the items between the component separators, an empty
\* one read as None
decode_component(field) ==
    LET Each(items) ==
            [i \in 1..Len(items) |->
                IF items[i] = <<>> THEN N ELSE S(items[i])]
    IN  Each(SplitOn(field, COMPONENT_SEP))

\* decode_repeated_component: a list of components
decode_repeated_component(component) ==
    LET Each(items) ==
            [i \in 1..Len(items) |-> C(decode_component(items[i]))]
    IN  Each(SplitOn(component, REPEAT_SEP))

\* decode_record: a field that holds a repeat separator is a repeated
\* component, one that holds a component separator a component, any other
\* a text, and an empty text None
decode_record(record) ==
    LET Field(item) ==
            IF Find(item, REPEAT_SEP) # -1
            THEN R(decode_repeated_component(item))
            ELSE IF Find(item, COMPONENT_SEP) # -1
            THEN C(decode_component(item))
            ELSE IF item = <<>> THEN N ELSE S(item)
        Each(items) == [i \in 1..Len(items) |-> Field(items[i])]
    IN  Each(SplitOn(record, FIELD_SEP))

\* what decode_message returns: (seq, records, cs), the records decoded
DecodedMessage(message) ==
    LET Use(d) ==
            [ok |-> d.ok, err |-> d.err, seq |-> d.seq,
             records |-> [i \in 1..Len(d.records) |->
                             decode_record(d.records[i])],
             cs |-> Slice(message, Len(message) - 4, Len(message) - 2)]
    IN  Use(decode_message(message))

\* ------------------------------------------------------------------------
\* astm/client.py : RecordsStateMachine and _default_sm
\* Record types are the strings "H", "P", ...; "None" is Python's None.
\* ------------------------------------------------------------------------
RecordTypes == {"H", "P", "O", "R", "C", "S", "M", "L"}

\* the byte of a one-letter record type
Ord(t) ==
    CASE t = "H" -> 72 [] t = "P" -> 80 [] t = "O" -> 79 [] t = "R" -> 82
      [] t = "C" -> 67 [] t = "S" -> 83 [] t = "M" -> 77 [] t = "L" -> 76

default_sm_mapping ==
    [p \in {"None", "H", "P", "O", "R", "C", "L"} |->
        CASE p = "None" -> {"H"}
          [] p = "H" -> {"C", "P", "L"}
          [] p = "P" -> {"C", "O", "L"}
          [] p = "O" -> {"C", "P", "O", "R", "L"}
          [] p = "R" -> {"C", "P", "O", "R", "L"}
          [] p = "C" -> {"*"}
          [] p = "L" -> {"H"}]

\* RecordsStateMachine.is_acceptable, with self.state = current
is_acceptable(current, state) ==
    IF state \notin DOMAIN default_sm_mapping THEN FALSE
    ELSE LET next_types == default_sm_mapping[current]
         IN  "*" \in next_types \/ state \in next_types

\* RecordsStateMachine.__call__: [state, raised]
records_sm_call(current, state) ==
    IF state # "None" /\ ~is_acceptable(current, state)
    THEN [state |-> current, raised |-> "AssertionError"]
    ELSE [state |-> state, raised |-> "none"]

\* ------------------------------------------------------------------------
\* Bounds of the model
\* ------------------------------------------------------------------------
\* longest chunk reassembly buffer explored on the server
MaxChunks == 2
\* most records the user's emitter yields over its life
MaxYields == 7
\* largest retry_attempts a client is created with
MaxRetry == 2
\* most calls made on a record-flow state machine driven on its own
MaxSmCalls == 4
\* most items in the inbox of the request handler at once, the one being
\* dispatched included
MaxInbox == 2
\* longest byte string a checksum is computed of
MaxText == 3
\* largest sequence number a message is encoded with
MaxSeqNo == 9
\* most fields of an encoded record
MaxFields == 2
\* longest text of a message that is split into chunks
MaxBody == 6
\* largest chunk size a message is split with
MaxSize == 10
\* longest byte string given to is_chunked_message
MaxMsgLen == 7
\* clients created in one process with the default records_sm
NumClients == 2
\* most timers a client creates while its threads are followed
MaxTimers == 5

\* ------------------------------------------------------------------------
\* State
\* ------------------------------------------------------------------------
VARIABLES
    \* RequestHandler (astm/server.py)
    is_transfer_state,    \* RequestHandler._is_transfer_state
    srv_terminator,       \* RequestHandler.terminator: "1" or "CRLF|EOT"
    chunks,               \* RequestHandler._chunks
    is_chunked_transfer,  \* "None", "True" or "False"
    srv_last_recv_data,   \* RequestHandler._last_recv_data
    srv_closed,           \* the channel was closed by handle_error
    srv_input_buffer,     \* AsyncChat._input_buffer
    srv_inbox,            \* AsyncChat.inbox
    srv_pc,               \* where handle_read stands: idle, lookup, found
    srv_log,              \* outcome of the last dispatched token
    \* Client with its Emitter wrapper and the user's generator
    cli,
    \* a RecordsStateMachine driven on its own
    sm_state,             \* RecordsStateMachine.state
    sm_last,              \* the last call: [prev, next, accepted]
    sm_calls,             \* number of calls made
    sm_own,               \* per client: the state of its own record flow
    \* a function of astm/codec.py called on its own
    codec_call,           \* the call: function, arguments, result
    \* the event loop thread and the timer threads of a client in init state
    thr

sm_vars == <<sm_state, sm_last, sm_calls, sm_own>>

\* what stands still while the server, the client as a whole or the state
\* machine is driven
side_vars == <<codec_call, thr>>

srv_vars == <<is_transfer_state, srv_terminator, chunks, is_chunked_transfer,
              srv_last_recv_data, srv_closed, srv_input_buffer, srv_inbox,
              srv_pc, srv_log>>

\* ------------------------------------------------------------------------
\* Inputs of the server: the messages a peer may put on the wire
\* ------------------------------------------------------------------------
\* a checksum different from the right one
WrongChecksum(frame) ==
    IF make_checksum(frame) = <<48, 48>> THEN <<48, 49>> ELSE <<48, 48>>

\* STX seq body trailer CS CR LF, with a right or a wrong checksum
MakeFrame(seq, body, trailer, goodcs) ==
    LET frame == <<DigitByte(seq % 8)>> \o body \o trailer
    IN  <<STX>> \o frame
        \o (IF goodcs THEN make_checksum(frame) ELSE WrongChecksum(frame))
        \o CRLF

\* "H", and "H<ETB>P" whose text holds an ETB byte
WireBodies == { <<72>>, <<72, ETB, 80>> }
\* CR ETX ends a message, ETB ends an intermediate chunk, no trailer at all
\* is a malformed frame
WireTrailers == { <<CR, ETX>>, <<ETB>>, <<>> }

WireMessages ==
    { MakeFrame(1, b, t, g) : b \in WireBodies, t \in WireTrailers,
                              g \in BOOLEAN }

EtbTerminated(m) == EndsWith(DropLast(m, 4), <<ETB>>)
EtxTerminated(m) == EndsWith(DropLast(m, 4), <<CR, ETX>>)
\* malformed or checksum mismatch, as decode_message judges it
Invalid(m) == ~decode_message(m).ok

\* exceptions a record handler of the dispatcher may raise
HandlerOutcomes == {"ok", "NotAccepted", "ValueError"}

\* ------------------------------------------------------------------------
\* astm/server.py : BaseRecordsDispatcher and RequestHandler
\* ------------------------------------------------------------------------
\* srv_log: the token kind, the reply pushed by dispatch (0: none), the
\* exception that left the handler, the exception caught inside on_message,
\* the arguments the dispatcher was called with, the number of record
\* handlers invoked, and what discard_input_buffers dropped (buffered
\* chunks, pending input bytes)
NoLog == [ev |-> "none", reply |-> 0, raised |-> "none", caught |-> "none",
          dispatched |-> <<>>, handled |-> 0, discarded |-> <<0, 0>>]

\* BaseRecordsDispatcher.__call__: decode the message, then call the handler
\* of every record; `h` is what the first handler does.
\* Result: [raised, handled] with handled the number of handlers invoked.
Dispatcher(message, h) ==
    LET Decoded(d) ==
            IF ~d.ok THEN [raised |-> d.err, handled |-> 0]
            ELSE IF h # "ok" THEN [raised |-> h, handled |-> 1]
            ELSE [raised |-> "none", handled |-> Len(d.records)]
    IN  Decoded(decode_message(message))

\* RequestHandler.handle_message:
\* [raised, chunks, flag, dispatched, handled]
handle_message(message, h) ==
    LET Dispatched(arg, r, kept, flag) ==
            [raised |-> r.raised,
             chunks |-> IF r.raised = "none" THEN <<>> ELSE kept,
             flag |-> flag, dispatched |-> <<arg>>, handled |-> r.handled]
        Joined(arg, appended, flag) ==
            Dispatched(arg, Dispatcher(arg, h), appended, flag)
        Handle(flag, appended) ==
            IF flag = "True"
            THEN [raised |-> "none", chunks |-> appended, flag |-> flag,
                  dispatched |-> <<>>, handled |-> 0]
            ELSE IF chunks # <<>>
            THEN Joined(join(appended), appended, flag)
            ELSE Dispatched(message, Dispatcher(message, h), <<>>, flag)
    IN  Handle(IF is_chunked_transfer = "None"
               THEN (IF is_chunked_message(message) THEN "True" ELSE "False")
               ELSE is_chunked_transfer,
               Append(chunks, message))

\* `except Exception` (asynclib.read, RequestHandler.on_message,
\* Client.on_nak) matches every exception of the model but NotAccepted, which
\* derives from BaseException
CaughtAsException(e) == e \notin {"none", "NotAccepted"}

\* bytes.find for a byte string (0-based, -1 when absent)
RECURSIVE FindSubFrom(_, _, _)
FindSubFrom(s, sub, i) ==
    IF i + Len(sub) - 1 > Len(s) THEN -1
    ELSE IF SubSeq(s, i, i + Len(sub) - 1) = sub THEN i - 1
    ELSE FindSubFrom(s, sub, i + 1)
FindSub(s, sub) == FindSubFrom(s, sub, 1)

\* one pass of the `while self._input_buffer` loop of AsyncChat.handle_read
\* for the two terminators of the request handler, 1 and [CRLF, EOT] (with
\* strip_terminator = False): [pulled, rest, found]
lookup_terminator(buffer, terminator) ==
    LET Cut(n) == [pulled |-> Slice(buffer, 0, n), rest |-> From(buffer, n),
                   found |-> TRUE]
    IN  IF terminator = "1" THEN Cut(1)
        ELSE IF FindSub(buffer, CRLF) # -1
        THEN Cut(FindSub(buffer, CRLF) + 2)
        ELSE IF FindSub(buffer, <<EOT>>) # -1
        THEN Cut(FindSub(buffer, <<EOT>>) + 1)
        ELSE [pulled |-> buffer, rest |-> <<>>, found |-> FALSE]

\* where handle_read stands after a dispatch that returned: at the next item
\* of the inbox (found_terminator), at the next pass over the input buffer,
\* or back in the event loop
SrvContinue(inbox, buffer) ==
    IF inbox # <<>> THEN "found"
    ELSE IF buffer # <<>> THEN "lookup" ELSE "idle"

\* what the segments read from the socket may hold: the control bytes, a
\* whole frame, a byte that is no token, two control bytes at once, and the
\* two parts of a frame that the transport delivers in two segments
WireData ==
    { <<ENQ>>, <<ACK>>, <<NAK>>, <<EOT>>, <<72>>, <<NAK, EOT>> }
    \cup WireMessages
    \cup { Slice(MakeFrame(1, <<72>>, <<CR, ETX>>, TRUE), 0, 3),
           From(MakeFrame(1, <<72>>, <<CR, ETX>>, TRUE), 3) }

\* the item found_terminator pops next, if any
SrvNextData == IF srv_inbox = <<>> THEN {} ELSE {Head(srv_inbox)}

SrvInit ==
    /\ is_transfer_state = FALSE
    /\ srv_terminator = "1"
    /\ chunks = <<>>
    /\ is_chunked_transfer = "None"
    /\ srv_last_recv_data = <<>>
    /\ srv_closed = FALSE
    /\ srv_input_buffer = <<>>
    /\ srv_inbox = <<>>
    /\ srv_pc = "idle"
    /\ srv_log = NoLog

\* the input buffers AsyncChat.handle_read may make its next pass over:
\* the one it stands at or, entered from the event loop, the buffer with a
\* received segment appended
SrvBuffers ==
    IF srv_pc = "lookup" THEN {srv_input_buffer}
    ELSE IF srv_pc = "idle" /\ Len(srv_inbox) < MaxInbox
    THEN { srv_input_buffer \o data : data \in WireData }
    ELSE {}

\* asynclib.read -> AsyncChat.handle_read, one pass of its loop
\* (_lookup_int_terminator / _lookup_list_terminator): the next piece of
\* the input buffer is pulled into the inbox; found_terminator follows when
\* the terminator was found
SrvHandleRead ==
    /\ ~srv_closed
    /\ \E b \in SrvBuffers :
       \E r \in {lookup_terminator(b, srv_terminator)} :
           /\ r.found \/ Len(srv_inbox) + 1 < MaxInbox
           /\ srv_inbox' = Append(srv_inbox, r.pulled)
           /\ srv_input_buffer' = r.rest
           /\ srv_pc' = IF r.found THEN "found" ELSE "idle"
    /\ srv_log' = [NoLog EXCEPT !.ev = "READ"]
    /\ UNCHANGED <<is_transfer_state, srv_terminator, chunks,
                   is_chunked_transfer, srv_last_recv_data, srv_closed>>

\* ASTMProtocol.found_terminator: the next item of the inbox is popped and
\* handed to dispatch
SrvPop(data) ==
    /\ ~srv_closed
    /\ srv_pc = "found"
    /\ srv_inbox # <<>>
    /\ data = Head(srv_inbox)
    /\ srv_last_recv_data' = data

\* the handler returned: dispatch pushes its reply and found_terminator and
\* handle_read go on
SrvReturned ==
    /\ srv_inbox' = Tail(srv_inbox)
    /\ srv_pc' = SrvContinue(Tail(srv_inbox), srv_input_buffer)
    /\ UNCHANGED <<srv_closed, srv_input_buffer>>

\* the handler raised: the exception leaves dispatch, found_terminator and
\* handle_read; asynclib.read hands an Exception to handle_error, which
\* closes the channel, and lets any other exception leave the event loop
SrvRaised(e) ==
    /\ srv_inbox' = Tail(srv_inbox)
    /\ srv_pc' = "idle"
    /\ srv_closed' = CaughtAsException(e)
    /\ UNCHANGED srv_input_buffer

\* variant of SrvOnEnq that grants every ENQ
SrvOnEnq_always_ack ==
    /\ SrvPop(<<ENQ>>)
    /\ is_transfer_state' = TRUE
    /\ srv_terminator' = "CRLF|EOT"
    /\ srv_log' = [NoLog EXCEPT !.ev = "ENQ", !.reply = ACK]
    /\ SrvReturned
    /\ UNCHANGED <<chunks, is_chunked_transfer>>

\* dispatch(ENQ) -> RequestHandler.on_enq
SrvOnEnq ==
    /\ SrvPop(<<ENQ>>)
    /\ IF ~is_transfer_state
       THEN /\ is_transfer_state' = TRUE
            /\ srv_terminator' = "CRLF|EOT"
            /\ srv_log' = [NoLog EXCEPT !.ev = "ENQ", !.reply = ACK]
       ELSE /\ srv_log' = [NoLog EXCEPT !.ev = "ENQ", !.reply = NAK]
            /\ UNCHANGED <<is_transfer_state, srv_terminator>>
    /\ SrvReturned
    /\ UNCHANGED <<chunks, is_chunked_transfer>>

\* dispatch(ACK) -> RequestHandler.on_ack raises NotAccepted
SrvOnAck ==
    /\ SrvPop(<<ACK>>)
    /\ srv_log' = [NoLog EXCEPT !.ev = "ACK", !.raised = "NotAccepted"]
    /\ SrvRaised("NotAccepted")
    /\ UNCHANGED <<is_transfer_state, srv_terminator, chunks,
                   is_chunked_transfer>>

\* dispatch(NAK) -> RequestHandler.on_nak raises NotAccepted
SrvOnNak ==
    /\ SrvPop(<<NAK>>)
    /\ srv_log' = [NoLog EXCEPT !.ev = "NAK", !.raised = "NotAccepted"]
    /\ SrvRaised("NotAccepted")
    /\ UNCHANGED <<is_transfer_state, srv_terminator, chunks,
                   is_chunked_transfer>>

\* variant of SrvOnEot that accepts an EOT in every state
SrvOnEot_any_state ==
    /\ SrvPop(<<EOT>>)
    /\ is_transfer_state' = FALSE
    /\ srv_terminator' = "1"
    /\ srv_log' = [NoLog EXCEPT !.ev = "EOT"]
    /\ SrvReturned
    /\ UNCHANGED <<chunks, is_chunked_transfer>>

\* dispatch(EOT) -> RequestHandler.on_eot
SrvOnEot ==
    /\ SrvPop(<<EOT>>)
    /\ IF is_transfer_state
       THEN /\ is_transfer_state' = FALSE
            /\ srv_terminator' = "1"
            /\ srv_log' = [NoLog EXCEPT !.ev = "EOT"]
            /\ SrvReturned
       ELSE /\ srv_log' = [NoLog EXCEPT !.ev = "EOT",
                                        !.raised = "InvalidState"]
            /\ SrvRaised("InvalidState")
            /\ UNCHANGED <<is_transfer_state, srv_terminator>>
    /\ UNCHANGED <<chunks, is_chunked_transfer>>

\* what on_message makes of the outcome r of handle_message: its
\* `except Exception` turns an Exception into a NAK and lets any other
\* exception pass
OnMessageResult(r) ==
    [reply |-> IF r.raised = "none" THEN ACK
               ELSE IF CaughtAsException(r.raised) THEN NAK ELSE 0,
     raised |-> IF CaughtAsException(r.raised) THEN "none" ELSE r.raised,
     caught |-> IF CaughtAsException(r.raised) THEN r.raised ELSE "none",
     chunks |-> r.chunks, flag |-> r.flag,
     dispatched |-> r.dispatched, handled |-> r.handled,
     discarded |-> FALSE]

\* variant of on_message that answers NAK outside transfer but keeps the
\* buffers
on_message_keep_buffers(message, h) ==
    IF ~is_transfer_state
    THEN [reply |-> NAK, raised |-> "none", caught |-> "none",
          chunks |-> chunks, flag |-> is_chunked_transfer,
          dispatched |-> <<>>, handled |-> 0, discarded |-> FALSE]
    ELSE OnMessageResult(handle_message(message, h))

\* RequestHandler.on_message (outside transfer: discard_input_buffers):
\* [reply, raised, caught, chunks, flag, dispatched, handled, discarded]
on_message(message, h) ==
    IF ~is_transfer_state
    THEN [reply |-> NAK, raised |-> "none", caught |-> "none",
          chunks |-> <<>>, flag |-> is_chunked_transfer,
          dispatched |-> <<>>, handled |-> 0, discarded |-> TRUE]
    ELSE OnMessageResult(handle_message(message, h))

\* dispatch(message) -> RequestHandler.on_message
SrvOnMessage ==
    \E message \in SrvNextData, h \in HandlerOutcomes :
        /\ SrvPop(message)
        /\ StartsWith(message, <<STX>>)
        /\ Len(chunks) < MaxChunks
        /\ \E r \in {on_message(message, h)} :
               /\ chunks' = r.chunks
               /\ is_chunked_transfer' = r.flag
               /\ srv_log' = [ev |-> "MSG", reply |-> r.reply,
                              raised |-> r.raised, caught |-> r.caught,
                              dispatched |-> r.dispatched,
                              handled |-> r.handled,
                              discarded |->
                                  IF r.discarded
                                  THEN <<Len(chunks),
                                         Len(Concat(Tail(srv_inbox)))
                                         + Len(srv_input_buffer)>>
                                  ELSE <<0, 0>>]
               /\ IF r.discarded
                  THEN /\ srv_inbox' = <<>>
                       /\ srv_input_buffer' = <<>>
                       /\ srv_pc' = "idle"
                       /\ UNCHANGED srv_closed
                  ELSE IF r.raised # "none" THEN SrvRaised(r.raised)
                  ELSE SrvReturned
        /\ UNCHANGED <<is_transfer_state, srv_terminator>>

\* dispatch(data) -> ASTMProtocol.default_handler raises ValueError
SrvOnUnknown ==
    \E data \in SrvNextData :
        /\ SrvPop(data)
        /\ data \notin {<<ENQ>>, <<ACK>>, <<NAK>>, <<EOT>>}
        /\ ~StartsWith(data, <<STX>>)
        /\ srv_log' = [NoLog EXCEPT !.ev = "UNKNOWN", !.raised = "ValueError"]
        /\ SrvRaised("ValueError")
        /\ UNCHANGED <<is_transfer_state, srv_terminator, chunks,
                       is_chunked_transfer>>

\* one step of the request handler: a pass of handle_read over its input
\* buffer, or the dispatch of one item
SrvNext ==
    \/ SrvHandleRead /\ UNCHANGED <<cli, sm_vars, side_vars>>
    \/ SrvOnEnq /\ UNCHANGED <<cli, sm_vars, side_vars>>
    \/ SrvOnAck /\ UNCHANGED <<cli, sm_vars, side_vars>>
    \/ SrvOnNak /\ UNCHANGED <<cli, sm_vars, side_vars>>
    \/ SrvOnEot /\ UNCHANGED <<cli, sm_vars, side_vars>>
    \/ SrvOnMessage /\ UNCHANGED <<cli, sm_vars, side_vars>>
    \/ SrvOnUnknown /\ UNCHANGED <<cli, sm_vars, side_vars>>

\* ------------------------------------------------------------------------
\* astm/client.py : the records and the user's emitter
\* ------------------------------------------------------------------------
\* max_message_size = None
NoLimit == 0 - 1

\* what close_when_done puts on the outbox (None)
CloseMark == <<>>
\* a record object pushed without being encoded
RawRecord == <<0>>

\* HeaderRecord().to_astm(): H|\^&|||||||||P||<timestamp>, the timestamp
\* being the 14 digits of a sample datetime.now()
Timestamp == <<50, 48, 49, 51, 48, 49, 48, 49, 48, 48, 48, 48, 48, 48>>
HeaderAstm ==
    <<S(<<72>>), R(<<C(<<>>), C(<<S(<<>>), S(<<38>>)>>)>>),
      N, N, N, N, N, N, N, N, N, S(<<80>>), N, S(Timestamp)>>
\* TerminatorRecord().to_astm(): L|1|N
TerminatorAstm == <<S(<<76>>), I(1), S(<<78>>)>>

\* what an emitter hands to the client: a token, a record or None
EnqItem == [t |-> "ENQ", rec |-> <<>>]
NoneItem == [t |-> "None", rec |-> <<>>]
HeaderItem == [t |-> "H", rec |-> HeaderAstm]
TerminatorItem == [t |-> "L", rec |-> TerminatorAstm]
\* a record [t] yielded by the user's emitter
UserItem(t) == IF t = "None" THEN NoneItem
               ELSE [t |-> t, rec |-> <<S(<<Ord(t)>>)>>]

\* what the user's emitter may yield: records in and out of order, a
\* record of a type unknown to the state machine, and None
UserTypes == {"P", "O", "H", "L", "M", "None"}

\* One advance of the user's generator (next() or send(value)).  The
\* generator is arbitrary user code around `with session():` blocks; an
\* advance is one of
\*   yield    yield a record where it stands
\*   next     leave the session it is in (if any), enter a new one, yield
\*   outside  leave the session it is in, yield outside any session
\*   finish   leave the session it is in (if any) and return
\*   empty    like finish, after entering and leaving an empty session
\*   raise    raise an exception
UserSteps ==
    [shape : {"yield", "next", "outside"}, t : UserTypes]
    \cup [shape : {"finish", "empty", "raise"}, t : {"None"}]

IsYield(g) == g.shape \in {"yield", "next", "outside"}

\* ------------------------------------------------------------------------
\* astm/protocol.py and astm/client.py : operators on the client object c
\* ------------------------------------------------------------------------
IsFrame(data) == data # <<>> /\ data[1] = STX

\* ASTMProtocol.start_timer (a timeout is configured)
start_timer(c) == [c EXCEPT !.timer = "armed"]

\* ASTMProtocol.push / AsyncChat.push: the data joins the outbox and the
\* outbox is flushed; a flush that meets the close mark closes the channel
\* (session_frames and neg_events are history counters: the frames pushed
\* since the last ENQ or EOT, and the negative answers to the outstanding ENQ,
\* which start afresh when an ENQ follows something else; eot_state is the
\* state the client is in at the moment it queues an EOT)
proto_push(c, data) ==
    [c EXCEPT !.last_sent_data = data,
              !.pushed = Append(@, data),
              !.eot_state = IF data = <<EOT>> THEN c.state ELSE @,
              !.closed = @ \/ c.closing,
              !.session_frames = IF IsFrame(data) THEN @ + 1 ELSE 0,
              !.neg_events = IF data = <<ENQ>> /\ c.last_sent_data # <<ENQ>>
                             THEN 0 ELSE @]

RECURSIVE PushAll(_, _)
PushAll(c, items) ==
    IF items = <<>> THEN c
    ELSE PushAll(proto_push(c, Head(items)), Tail(items))

\* Client.push
push(c, data, with_timer) ==
    LET Chunked(c1, err) ==
            IF err # "none" THEN [c1 EXCEPT !.raised = err]
            ELSE PushAll(c1, split(data, c1.max_message_size))
        Send(c1) ==
            IF c1.max_message_size # NoLimit
            THEN IF Len(data) > c1.max_message_size
                 THEN Chunked(c1, SplitRaises(data, c1.max_message_size))
                 ELSE c1
            ELSE proto_push(c1, data)
        Given(c1) == [c1 EXCEPT !.given = Append(@, data)]
    IN  Send(Given(IF with_timer THEN start_timer(c) ELSE c))

\* variant of set_init_state that keeps the frame counter of the session
set_init_state_keep_seq(c) ==
    [c EXCEPT !.state = "init", !.records_sm = "None"]

\* ASTMProtocol.set_init_state + Client.on_init_state
set_init_state(c) ==
    [c EXCEPT !.state = "init", !.last_seq = 0, !.records_sm = "None"]

set_opened_state(c) == [c EXCEPT !.state = "opened"]
set_transfer_state(c) == [c EXCEPT !.state = "transfer"]
set_termination_state(c) == [c EXCEPT !.state = "termination"]

\* AsyncChat.close_when_done
close_when_done(c) ==
    [c EXCEPT !.closing = TRUE, !.pushed = Append(@, CloseMark)]

\* variant of terminate that pushes EOT whatever was sent last
terminate_unguarded(c, with_close) ==
    LET AfterEot(p) == IF p.raised # "none" THEN p ELSE set_init_state(p)
        Close(c1) ==
            IF c1.raised # "none" THEN c1
            ELSE IF with_close THEN close_when_done(c1)
            ELSE c1
    IN  Close(AfterEot(push(c, <<EOT>>, FALSE)))

\* Client.terminate
terminate(c, with_close) ==
    LET AfterEot(p) == IF p.raised # "none" THEN p ELSE set_init_state(p)
        Close(c1) ==
            IF c1.raised # "none" THEN c1
            ELSE IF with_close THEN close_when_done(c1)
            ELSE c1
    IN  Close(IF c.last_sent_data # <<EOT>>
              THEN AfterEot(push(c, <<EOT>>, FALSE))
              ELSE c)

\* Client.push_record
push_record(c, item) ==
    LET Checked(c1, r) ==
            IF r.raised # "none" THEN [c1 EXCEPT !.raised = r.raised]
            ELSE push([c1 EXCEPT !.records_sm = r.state],
                      encode_message(c1.last_seq, <<item.rec>>), TRUE)
        Numbered(c1) ==
            IF item.t = "None" THEN [c1 EXCEPT !.raised = "TypeError"]
            ELSE Checked(c1, records_sm_call(c1.records_sm, item.t))
    IN  Numbered([c EXCEPT !.last_seq = @ + 1])

\* variant of _retry_enq that does not use up the attempt
retry_enq_no_decrement(c) ==
    IF c.remain_attempts # 0
    THEN push(c, <<ENQ>>, TRUE)
    ELSE [c EXCEPT !.raised = "Rejected"]

\* Client._retry_enq
retry_enq(c) ==
    IF c.remain_attempts # 0
    THEN push([c EXCEPT !.remain_attempts = @ - 1], <<ENQ>>, TRUE)
    ELSE [c EXCEPT !.raised = "Rejected"]

\* the `with session():` block of Client.session is entered: the header
\* setter of the emitter wrapper restarts the head generator
SessionEnter(c) == [c EXCEPT !.head = "fresh"]

\* the block is left: the code of Client.session after its yield; the
\* terminator setter restarts the tail generator
SessionExit(c) ==
    IF c.state = "opened" THEN terminate(c, TRUE)
    ELSE IF c.state = "transfer"
    THEN [set_termination_state(c) EXCEPT !.tail = "fresh"]
    ELSE c

\* one advance g of the user's generator, with the session blocks it runs
\* through on the way
GenStep(c, g) ==
    LET Entered(c1) ==
            IF g.shape \in {"next", "empty"} THEN SessionEnter(c1) ELSE c1
        Emptied(c2) == IF g.shape = "empty" THEN SessionExit(c2) ELSE c2
        Moved(c3) ==
            [c3 EXCEPT !.gen = CASE g.shape = "yield" ->
                                      (IF c.gen = "in" THEN "in" ELSE "out")
                                [] g.shape = "next" -> "in"
                                [] g.shape = "outside" -> "out"
                                [] OTHER -> "done",
                       !.gen_yields = IF IsYield(g) THEN @ + 1 ELSE @,
                       !.gen_rec = IF IsYield(g) THEN g.t ELSE "None"]
    IN  Moved(Emptied(Entered(
            IF c.gen = "in"
               /\ g.shape \in {"next", "outside", "finish", "empty"}
            THEN SessionExit(c) ELSE c)))

\* Emitter.head advanced with send(value)
HeadSend(c, value) ==
    CASE c.head = "fresh" -> [c EXCEPT !.head = "atENQ", !.ret = EnqItem]
      [] c.head = "atENQ" ->
            IF value = "True"
            THEN [c EXCEPT !.head = "atHeader", !.ret = HeaderItem]
            ELSE [c EXCEPT !.head = "done", !.raised = "AssertionError"]
      [] c.head = "atHeader" ->
            IF value = "True"
            THEN [c EXCEPT !.head = "done", !.raised = "StopIteration"]
            ELSE [c EXCEPT !.head = "done", !.raised = "Rejected"]
      [] c.head = "done" -> [c EXCEPT !.raised = "StopIteration"]
      [] c.head = "None" -> [c EXCEPT !.raised = "AttributeError"]

\* Emitter.send in termination state: Emitter.tail advanced with
\* send(value); a StopIteration is swallowed and the loop goes round again
TailSend(c, value) ==
    CASE c.tail = "fresh" ->
            IF value = "None"
            THEN [c EXCEPT !.tail = "done",
                           !.trap = Append(@, TerminatorItem),
                           !.raised = "Rejected"]
            ELSE [c EXCEPT !.tail = "atTerm", !.ret = TerminatorItem]
      [] c.tail = "atTerm" ->
            IF value = "True"
            THEN [c EXCEPT !.tail = "done", !.raised = "Hang"]
            ELSE [c EXCEPT !.tail = "done", !.raised = "Rejected"]
      [] c.tail = "done" -> [c EXCEPT !.raised = "Hang"]
      [] c.tail = "None" -> [c EXCEPT !.raised = "AttributeError"]

\* Emitter.send in transfer state with an empty trap: the user's generator
\* is advanced with send(value)
BodySend(c, value, g) ==
    LET Stepped(u) ==
            IF u.raised # "none" THEN u
            ELSE IF g.shape = "raise" THEN [u EXCEPT !.raised = "UserError"]
            ELSE IF u.state # "termination"
            THEN IF IsYield(g) THEN [u EXCEPT !.ret = UserItem(g.t)]
                 ELSE [u EXCEPT !.raised = "StopIteration"]
            ELSE TailSend(IF IsYield(g)
                          THEN [u EXCEPT !.trap = Append(@, UserItem(g.t))]
                          ELSE u,
                          value)
    IN  IF c.gen = "done" THEN [c EXCEPT !.raised = "StopIteration"]
        ELSE Stepped(GenStep([c EXCEPT !.delivered = value], g))

\* Emitter.send(value); the result is in ret, or an exception in raised
EmitterSend(c, value, g) ==
    CASE c.state = "init" ->
            IF c.head = "None" THEN [c EXCEPT !.raised = "StopIteration"]
            ELSE HeadSend(c, value)
      [] c.state = "opened" ->
            IF c.empty THEN [c EXCEPT !.raised = "StopIteration"]
            ELSE HeadSend(c, value)
      [] c.state = "transfer" ->
            IF c.trap # <<>>
            THEN [c EXCEPT !.ret = Head(c.trap), !.trap = Tail(@)]
            ELSE BodySend(c, value, g)
      [] c.state = "termination" -> TailSend(c, value)

\* the bytes Client.push is given for an item that is not a record frame
ItemBytes(item) == IF item.t = "ENQ" THEN <<ENQ>> ELSE RawRecord

Caught(c) == [c EXCEPT !.raised = "none"]

\* Client.handle_connect
handle_connect(c, g) ==
    LET Sent(e) ==
            IF e.raised = "StopIteration"
            THEN [e EXCEPT !.raised = "InvalidState"]
            ELSE IF e.raised # "none" THEN e
            ELSE push(e, ItemBytes(e.ret), TRUE)
        Primed(u) ==
            IF g.shape = "raise" THEN [u EXCEPT !.raised = "UserError"]
            ELSE Sent(EmitterSend(
                     IF IsYield(g) THEN [u EXCEPT !.trap = <<UserItem(g.t)>>]
                     ELSE [u EXCEPT !.empty = TRUE],
                     "None", g))
    IN  Primed(GenStep(set_init_state([c EXCEPT !.head = "None",
                                               !.tail = "None",
                                               !.empty = FALSE,
                                               !.trap = <<>>,
                                               !.gen = "start"]),
                       g))

\* Client.on_ack
on_ack(c, g) ==
    LET NextSession(e) ==
            IF e.raised = "StopIteration" THEN terminate(Caught(e), TRUE)
            ELSE IF e.raised # "none" THEN e
            ELSE push(e, ItemBytes(e.ret), TRUE)
        Terminated(t) ==
            IF t.raised # "none" THEN t
            ELSE NextSession(EmitterSend(t, "True", g))
        NextRecord(e) ==
            IF e.raised = "StopIteration" THEN terminate(Caught(e), TRUE)
            ELSE IF e.raised # "none" THEN e
            ELSE push_record([e EXCEPT !.remain_attempts = c.retry_attempts],
                             e.ret)
    IN  IF c.state = "termination" THEN Terminated(terminate(c, FALSE))
        ELSE NextRecord(EmitterSend(
                 IF c.state = "init" THEN set_opened_state(c)
                 ELSE IF c.state = "opened" THEN set_transfer_state(c)
                 ELSE c,
                 "True", g))

\* Client.on_nak
on_nak(c, g) ==
    LET Closed(t, exc) ==
            IF t.raised # "none" THEN t ELSE [t EXCEPT !.raised = exc]
        Done(r) ==
            IF r.raised = "none" \/ r.raised = "StopIteration" THEN Caught(r)
            ELSE IF r.raised = "Hang" THEN r
            ELSE Closed(terminate(Caught(r), TRUE), r.raised)
        Sent(e) ==
            Done(IF e.raised # "none" \/ e.ret.t = "None" THEN e
                 ELSE push_record(e, e.ret))
    IN  IF c.state = "init" THEN retry_enq(c)
        ELSE Sent(EmitterSend(c, "False", g))

\* variant of on_timeout that sends the unanswered data once more
on_timeout_resend(c) ==
    IF c.state = "init" THEN retry_enq(c) ELSE push(c, c.last_sent_data, TRUE)

\* Client.on_timeout
on_timeout(c) == IF c.state = "init" THEN retry_enq(c) ELSE c

\* ------------------------------------------------------------------------
\* The client as a state machine: one action per event of the channel
\* ------------------------------------------------------------------------
\* max_message_size values a client is created with
MessageSizes == {NoLimit, 12}

\* Client.__init__(retry_attempts = n, max_message_size = m)
NewClient(n, m) ==
       [state |-> "none",           \* ASTMProtocol._state
        last_seq |-> 0,             \* Client._last_seq
        records_sm |-> "None",      \* Client.records_sm.state
        remain_attempts |-> n,
        retry_attempts |-> n,
        max_message_size |-> m,
        last_sent_data |-> <<>>,    \* ASTMProtocol._last_sent_data
        head |-> "None",            \* Emitter._head
        tail |-> "None",            \* Emitter._tail
        empty |-> FALSE,            \* Emitter.empty
        trap |-> <<>>,              \* Emitter.trap
        gen |-> "start",            \* where the user's generator is
        gen_yields |-> 0,           \* records it has yielded
        gen_rec |-> "None",         \* type of the record it is suspended at
        delivered |-> "none",       \* value its yield returned in the event
        timer |-> "off",            \* ASTMProtocol._timer
        closing |-> FALSE,          \* the close mark is queued
        closed |-> FALSE,           \* the channel is closed
        ev |-> "none",              \* the last event
        pushed |-> <<>>,            \* what it put on the outbox
        given |-> <<>>,             \* what Client.push was called with
        eot_state |-> "no EOT",     \* _state when it queued an EOT
        raised |-> "none",          \* the exception it ended with
        ret |-> NoneItem,           \* result of Emitter.send
        neg_events |-> 0,           \* NAKs/timeouts since its ENQ
        session_frames |-> 0]       \* frames since the ENQ or EOT

CliInit == \E n \in 0..MaxRetry, m \in MessageSizes : cli = NewClient(n, m)

Begin(c, ev) ==
    [c EXCEPT !.ev = ev, !.pushed = <<>>, !.raised = "none", !.ret = NoneItem,
              !.delivered = "none", !.given = <<>>, !.eot_state = "no EOT"]

\* ASTMProtocol.dispatch after the handler: the timer is restarted; an
\* exception leaves dispatch instead, and asynclib.read closes the channel
\* for an Exception (Dispatcher.handle_error -> handle_close -> close) and
\* lets any other exception leave the event loop
Finish(r) ==
    [(IF r.raised = "none" THEN start_timer(r)
      ELSE [r EXCEPT !.closed = @ \/ CaughtAsException(r.raised)])
     EXCEPT !.ret = NoneItem]

\* an ENQ is outstanding: it is the last thing sent and the client waits in
\* init for its answer
EnqOutstanding(c) == c.state = "init" /\ c.last_sent_data = <<ENQ>>

\* a NAK or a timeout arrives: the negative answers to the outstanding ENQ
\* are counted, up to one more than the retry budget
CountNegative(c) ==
    IF EnqOutstanding(c)
    THEN [c EXCEPT !.neg_events = Min(@ + 1, c.retry_attempts + 1)]
    ELSE c

\* the event can advance the user's generator: handle_connect does, and
\* Emitter.send does in transfer state (which an ACK in opened state leads
\* to) when the trap is empty and the generator has not returned
ReachesGenerator(c) ==
    \/ c.state = "none"
    \/ c.state \in {"opened", "transfer"} /\ c.trap = <<>> /\ c.gen # "done"

\* the advances the user's generator may make in an event; where the event
\* cannot reach the generator the choice is immaterial and one stands for all
UserStepsOf(c) ==
    IF ReachesGenerator(c)
    THEN { g \in UserSteps : /\ IsYield(g) => c.gen_yields < MaxYields
                             /\ g.shape = "outside" => c.gen = "in" }
    ELSE {[shape |-> "finish", t |-> "None"]}

\* handle_connect_event -> Client.handle_connect
CliConnect ==
    /\ cli.state = "none" /\ ~cli.closed
    /\ \E g \in UserStepsOf(cli) :
          \E r \in {handle_connect(Begin(cli, "CONNECT"), g)} :
              cli' = [r EXCEPT !.closed = (r.raised # "none"),
                               !.ret = NoneItem]

\* dispatch(ACK) -> Client.on_ack
CliRecvAck ==
    /\ cli.state # "none" /\ ~cli.closed
    /\ \E g \in UserStepsOf(cli) :
          cli' = Finish(on_ack(Begin(cli, "ACK"), g))

\* dispatch(NAK) -> Client.on_nak
CliRecvNak ==
    /\ cli.state # "none" /\ ~cli.closed
    /\ \E g \in UserStepsOf(cli) :
          cli' = Finish(on_nak(CountNegative(Begin(cli, "NAK")), g))

\* variant of CliRecvUnexpected that takes the token as the end of the
\* session
CliRecvUnexpected_resets ==
    /\ cli.state # "none" /\ ~cli.closed
    /\ \E tok \in {"ENQ", "EOT", "MSG"} :
          cli' = Finish(set_init_state(
                     [Begin(cli, tok) EXCEPT !.raised = "NotAccepted"]))

\* dispatch(ENQ | EOT | message) -> on_enq / on_eot / on_message raise
CliRecvUnexpected ==
    /\ cli.state # "none" /\ ~cli.closed
    /\ \E tok \in {"ENQ", "EOT", "MSG"} :
          cli' = Finish([Begin(cli, tok) EXCEPT !.raised = "NotAccepted"])

\* the timer thread runs Client.on_timeout; an exception ends that thread
CliTimeout ==
    /\ cli.timer = "armed"
    /\ LET c0 == [Begin(cli, "TIMEOUT") EXCEPT !.timer = "off"]
       IN  cli' = on_timeout(CountNegative(c0))

\* handle_write -> flush meets the close mark -> handle_close -> close
CliClose ==
    /\ cli.closing /\ ~cli.closed
    /\ cli' = [Begin(cli, "CLOSE") EXCEPT !.closed = TRUE]

\* one event of the client's channel
CliNext ==
    \/ CliConnect /\ UNCHANGED <<srv_vars, sm_vars, side_vars>>
    \/ CliRecvAck /\ UNCHANGED <<srv_vars, sm_vars, side_vars>>
    \/ CliRecvNak /\ UNCHANGED <<srv_vars, sm_vars, side_vars>>
    \/ CliRecvUnexpected /\ UNCHANGED <<srv_vars, sm_vars, side_vars>>
    \/ CliTimeout /\ UNCHANGED <<srv_vars, sm_vars, side_vars>>
    \/ CliClose /\ UNCHANGED <<srv_vars, sm_vars, side_vars>>

\* ------------------------------------------------------------------------
\* A RecordsStateMachine called with arbitrary record types
\* ------------------------------------------------------------------------
SmInit ==
    /\ sm_state = "None"
    /\ sm_last = [prev |-> "None", next |-> "None", accepted |-> TRUE]
    /\ sm_calls = 0
    /\ sm_own = [i \in 1..NumClients |-> "new"]

\* RecordsStateMachine.__call__(t)
SmCall ==
    \E t \in RecordTypes \cup {"None"} :
        /\ sm_calls < MaxSmCalls
        /\ \E r \in {records_sm_call(sm_state, t)} :
               /\ sm_state' = r.state
               /\ sm_last' = [prev |-> sm_state, next |-> t,
                              accepted |-> (r.raised = "none")]
        /\ sm_calls' = sm_calls + 1
        /\ sm_own' = sm_own

SmNext == SmCall /\ UNCHANGED <<srv_vars, cli, side_vars>>

\* ------------------------------------------------------------------------
\* Several clients of one process, each created with the default
\* records_sm: Client.__init__ stores the one module-level _default_sm in
\* every client, so sm_state is the state all of them share. sm_own[i] is the
\* state the record flow of client i has reached by its own calls: "new"
\* before its handle_connect, "closed" after one of its records was refused.
\* ------------------------------------------------------------------------
\* Client.on_init_state of client i (from handle_connect or terminate):
\* self.records_sm(None)
DuoOnInitState ==
    \E i \in 1..NumClients :
        /\ sm_calls < MaxSmCalls
        /\ sm_own[i] # "closed"
        /\ sm_state' = records_sm_call(sm_state, "None").state
        /\ sm_own' = [sm_own EXCEPT ![i] = "None"]
        /\ sm_last' = [prev |-> sm_state, next |-> "None", accepted |-> TRUE,
                       who |-> i, alone |-> TRUE]
        /\ sm_calls' = sm_calls + 1

\* Client.push_record of client i for a record of type t:
\* self.records_sm(record[0]); an AssertionError leaves the handler and the
\* channel of the client is closed
DuoPushRecord ==
    \E i \in 1..NumClients, t \in RecordTypes :
        /\ sm_calls < MaxSmCalls
        /\ sm_own[i] \notin {"new", "closed"}
        /\ \E r \in {records_sm_call(sm_state, t)},
              a \in {records_sm_call(sm_own[i], t)} :
               /\ sm_state' = r.state
               /\ sm_own' = [sm_own EXCEPT
                                ![i] = IF r.raised = "none" /\ a.raised = "none"
                                       THEN a.state ELSE "closed"]
               /\ sm_last' = [prev |-> sm_state, next |-> t,
                              accepted |-> (r.raised = "none"),
                              who |-> i, alone |-> (a.raised = "none")]
        /\ sm_calls' = sm_calls + 1

DuoNext ==
    \/ DuoOnInitState /\ UNCHANGED <<srv_vars, cli, side_vars>>
    \/ DuoPushRecord /\ UNCHANGED <<srv_vars, cli, side_vars>>

\* ------------------------------------------------------------------------
\* The functions of astm/codec.py called with arbitrary arguments
\* ------------------------------------------------------------------------
\* a call of function f that has not run yet
Call(f, s, seq, records, size) ==
    [f |-> f, s |-> s, seq |-> seq, records |-> records, size |-> size,
     pc |-> "called", raised |-> "none", out |-> <<>>, joined |-> <<>>]

\* no function is called
CodecAtRest == codec_call = Call("none", <<>>, 0, <<>>, 0)

\* the calls explored: make_checksum of short byte strings whose sums pass
\* 255; encode_message followed by decode_message for records of texts,
\* None, components and repeated components; split (followed by join) of
\* single-record messages under every sequence digit; is_chunked_message of
\* byte strings with any number of ETB bytes at any place
CodecInputs ==
    LET bytes == {0, 9, 16, 160, 255}
        texts == UNION { [1..k -> bytes] : k \in 0..MaxText }
        A == S(<<65>>)
        B == S(<<66>>)
        fields == { A, N, C(<<A, B>>), C(<<A, N>>), C(<<N, B>>), C(<<A>>),
                    R(<<C(<<A, B>>), C(<<B, A>>)>>), R(<<C(<<A, B>>)>>) }
        records == UNION { [1..k -> fields] : k \in 1..MaxFields }
        lists == { <<r>> : r \in records }
                 \cup { <<r1, r2>> : r1 \in [1..1 -> fields],
                                     r2 \in [1..1 -> fields] }
        messages == { encode_message(
                          seq, << <<IF k = 0 THEN N
                                     ELSE S([i \in 1..k |-> 65])>> >>) :
                      seq \in 0..MaxSeqNo, k \in 0..MaxBody }
    IN  { Call("make_checksum", t, 0, <<>>, 0) : t \in texts }
        \cup { Call("encode_message", <<>>, seq, l, 0) :
                   seq \in 0..MaxSeqNo, l \in lists }
        \cup { Call("split", m, 0, <<>>, size) :
                   m \in messages, size \in 0..MaxSize }
        \cup { Call("is_chunked_message", t, 0, <<>>, 0) :
                   t \in UNION { [1..k -> {ETB, 65}] : k \in 0..MaxMsgLen } }

CodecInit == codec_call \in CodecInputs

\* make_checksum(s)
CodecMakeChecksum ==
    /\ codec_call.f = "make_checksum" /\ codec_call.pc = "called"
    /\ \E e \in {MakeChecksumRaises(codec_call.s)} :
          codec_call' =
              [codec_call EXCEPT
                  !.pc = "returned", !.raised = e,
                  !.out = IF e = "none" THEN make_checksum(codec_call.s)
                          ELSE <<>>]

\* decode_message(encode_message(seq, records, encoding), encoding)
CodecRoundTrip ==
    /\ codec_call.f = "encode_message" /\ codec_call.pc = "called"
    /\ \E m \in {encode_message(codec_call.seq, codec_call.records)} :
          \E d \in {DecodedMessage(m)} :
              codec_call' =
                  [codec_call EXCEPT
                      !.pc = "returned", !.s = m, !.out = d,
                      !.raised = IF d.ok THEN "none" ELSE d.err]

\* is_chunked_message(s)
CodecIsChunked ==
    /\ codec_call.f = "is_chunked_message" /\ codec_call.pc = "called"
    /\ codec_call' = [codec_call EXCEPT
                          !.pc = "returned",
                          !.out = is_chunked_message(codec_call.s)]

\* list(split(msg, size))
CodecSplit ==
    /\ codec_call.f = "split" /\ codec_call.pc = "called"
    /\ \E e \in {SplitRaises(codec_call.s, codec_call.size)} :
          codec_call' =
              [codec_call EXCEPT
                  !.pc = "returned", !.raised = e,
                  !.out = IF e = "none"
                          THEN split(codec_call.s, codec_call.size)
                          ELSE <<>>]

\* join(chunks) of the chunks split has produced
CodecJoin ==
    /\ codec_call.f = "split" /\ codec_call.pc = "returned"
    /\ codec_call.raised = "none"
    /\ codec_call' = [codec_call EXCEPT !.pc = "joined",
                                        !.joined = join(codec_call.out)]

CodecNext ==
    \/ CodecMakeChecksum /\ UNCHANGED <<srv_vars, cli, sm_vars, thr>>
    \/ CodecRoundTrip /\ UNCHANGED <<srv_vars, cli, sm_vars, thr>>
    \/ CodecSplit /\ UNCHANGED <<srv_vars, cli, sm_vars, thr>>
    \/ CodecJoin /\ UNCHANGED <<srv_vars, cli, sm_vars, thr>>
    \/ CodecIsChunked /\ UNCHANGED <<srv_vars, cli, sm_vars, thr>>

\* ------------------------------------------------------------------------
\* The threads of a client that waits in init state for the answer to its
\* ENQ: the event loop thread, which dispatches the NAKs of the peer under
\* ASTMProtocol._lock, and the thread of each threading.Timer, which runs
\* Client.on_timeout without taking the lock. A thread is interrupted
\* between the statements of _retry_enq and between stop_timer and the
\* arming of the new timer in start_timer.
\*   thr.retry, thr.remain   retry_attempts, remain_attempts
\*   thr.ref                 _timer: the number of a timer, 0 for None
\*   thr.timers              the timers created: waiting, running (its
\*                           function was called), cancelled or done
\*   thr.pc                  where each thread stands, thread 0 being the
\*                           event loop and thread i that of timer i
\*   thr.enqs, thr.naks      ENQs pushed, NAKs dispatched
\*   thr.rejected            Rejected was raised
\* ------------------------------------------------------------------------
\* the client after handle_connect pushed the ENQ of a session: the first
\* timer runs, nothing else has happened (n = 0 - 1 stands for no client)
ThreadsOf(n) ==
    [retry |-> n, remain |-> n, ref |-> IF n < 0 THEN 0 ELSE 1,
     timers |-> IF n < 0 THEN <<>> ELSE <<"waiting">>,
     pc |-> [t \in 0..MaxTimers |-> "idle"],
     enqs |-> IF n < 0 THEN 0 ELSE 1, naks |-> 0, rejected |-> FALSE]

\* a timer expires: Timer.run calls Client.on_timeout, which in init state
\* goes into _retry_enq
ThrExpire ==
    \E i \in 1..Len(thr.timers) :
        /\ thr.timers[i] = "waiting"
        /\ thr' = [thr EXCEPT !.timers[i] = "running", !.pc[i] = "test"]

\* the event loop reads a NAK that answers an ENQ: dispatch takes the lock
\* and calls Client.on_nak, which in init state goes into _retry_enq
ThrRecvNak ==
    /\ thr.pc[0] = "idle" /\ ~thr.rejected
    /\ thr.naks < thr.enqs
    /\ thr' = [thr EXCEPT !.naks = @ + 1, !.pc[0] = "test"]

\* Client._retry_enq in thread t: the test of remain_attempts (Rejected ends
\* the thread), then the decrement
ThrRetryEnq ==
    \E t \in DOMAIN thr.pc :
        \/ /\ thr.pc[t] = "test" /\ thr.remain # 0
           /\ thr' = [thr EXCEPT !.pc[t] = "dec"]
        \/ /\ thr.pc[t] = "test" /\ thr.remain = 0
           /\ thr' = [thr EXCEPT
                         !.pc[t] = "ended", !.rejected = TRUE,
                         !.timers = IF t = 0 THEN @
                                    ELSE [@ EXCEPT ![t] = "done"]]
        \/ /\ thr.pc[t] = "dec"
           /\ thr' = [thr EXCEPT !.remain = @ - 1, !.pc[t] = "stop"]

\* ASTMProtocol.start_timer in thread t, called by Client.push ("stop",
\* "arm") and by dispatch after the handler ("stop2", "arm2"): stop_timer
\* cancels the timer _timer refers to, which stops it unless its function
\* is already running, and forgets it; then a new timer is created, stored
\* in _timer and started
ThrStartTimer ==
    \E t \in DOMAIN thr.pc :
        \/ /\ thr.pc[t] \in {"stop", "stop2"}
           /\ thr' = [thr EXCEPT
                         !.timers = IF thr.ref # 0 /\ @[thr.ref] = "waiting"
                                    THEN [@ EXCEPT ![thr.ref] = "cancelled"]
                                    ELSE @,
                         !.ref = 0,
                         !.pc[t] = IF @ = "stop" THEN "arm" ELSE "arm2"]
        \/ /\ thr.pc[t] \in {"arm", "arm2"}
           /\ Len(thr.timers) < MaxTimers
           /\ thr' = [thr EXCEPT
                         !.timers = Append(@, "waiting"),
                         !.ref = Len(thr.timers) + 1,
                         !.pc[t] = IF @ = "arm" THEN "send" ELSE "idle"]

\* ASTMProtocol.push(ENQ) in thread t, the end of Client.push: a timer
\* thread ends after it, the event loop goes back into dispatch
ThrPushEnq ==
    \E t \in DOMAIN thr.pc :
        /\ thr.pc[t] = "send"
        /\ thr' = [thr EXCEPT
                      !.enqs = @ + 1,
                      !.pc[t] = IF t = 0 THEN "stop2" ELSE "ended",
                      !.timers = IF t = 0 THEN @
                                 ELSE [@ EXCEPT ![t] = "done"]]

ThrNext ==
    \/ ThrExpire /\ UNCHANGED <<srv_vars, cli, sm_vars, codec_call>>
    \/ ThrRecvNak /\ UNCHANGED <<srv_vars, cli, sm_vars, codec_call>>
    \/ ThrRetryEnq /\ UNCHANGED <<srv_vars, cli, sm_vars, codec_call>>
    \/ ThrStartTimer /\ UNCHANGED <<srv_vars, cli, sm_vars, codec_call>>
    \/ ThrPushEnq /\ UNCHANGED <<srv_vars, cli, sm_vars, codec_call>>

\* ------------------------------------------------------------------------
\* Specifications
\* ------------------------------------------------------------------------
vars == <<srv_vars, cli, sm_vars, side_vars>>

Init == SrvInit /\ CliInit /\ SmInit /\ CodecAtRest /\ thr = ThreadsOf(0 - 1)

\* the three parts run apart from each other: while one is driven the
\* client stands as Client() created it, with the whole retry budget and no
\* max_message_size
ClientAtRest == cli = NewClient(MaxRetry, NoLimit)

InitAtRest ==
    SrvInit /\ ClientAtRest /\ SmInit /\ CodecAtRest /\ thr = ThreadsOf(0 - 1)

InitCodec ==
    SrvInit /\ ClientAtRest /\ SmInit /\ CodecInit /\ thr = ThreadsOf(0 - 1)

\* the request handler of one accepted connection, fed by an arbitrary peer
SpecServer == InitAtRest /\ [][SrvNext]_vars

\* one client connection, fed by an arbitrary peer and an arbitrary emitter
SpecClient == Init /\ [][CliNext]_vars

\* one record-flow state machine, called with arbitrary record types
SpecSM == InitAtRest /\ [][SmNext]_vars

\* the three parts at rest and a client of any retry budget in init state
InitThreads ==
    /\ SrvInit /\ ClientAtRest /\ SmInit /\ CodecAtRest
    /\ \E n \in 0..MaxRetry : thr = ThreadsOf(n)

\* the threads of one client whose ENQ is answered by NAKs and timeouts
SpecThreads == InitThreads /\ [][ThrNext]_vars

\* the record flows of the clients of one process, in any interleaving
SpecDuo == InitAtRest /\ [][DuoNext]_vars

\* a token or frame the client sent is waiting for its answer
Outstanding(c) == c.last_sent_data = <<ENQ>> \/ IsFrame(c.last_sent_data)

\* the peer acknowledges what is outstanding: dispatch(ACK) -> Client.on_ack
CliRecvAckOfOutstanding == Outstanding(cli) /\ CliRecvAck

\* one event of the channel of a client whose peer answers everything
\* with ACK
AckedNext ==
    \/ CliConnect /\ UNCHANGED <<srv_vars, sm_vars, side_vars>>
    \/ CliRecvAckOfOutstanding /\ UNCHANGED <<srv_vars, sm_vars, side_vars>>
    \/ CliClose /\ UNCHANGED <<srv_vars, sm_vars, side_vars>>

\* one client connection whose peer acknowledges every token and frame
SpecAcked == Init /\ [][AckedNext]_vars

\* one client connection whose own events happen when they can: the
\* connection is established, an armed timer expires (threading.Timer), and
\* the outbox is flushed up to a queued close mark (handle_write); what the
\* peer sends, and whether it sends anything, is left open
SpecClientLive ==
    /\ Init /\ [][CliNext]_vars
    /\ WF_cli(CliConnect) /\ WF_cli(CliTimeout) /\ WF_cli(CliClose)

\* one call of a function of the codec
SpecCodec == InitCodec /\ [][CodecNext]_vars

\* ------------------------------------------------------------------------
\* Server properties
\* ------------------------------------------------------------------------
SessionState == <<is_transfer_state, srv_terminator, chunks,
                  is_chunked_transfer>>

\* C5: an ENQ is answered ACK exactly when no session is open, and that
\* opens the session; an ENQ inside a session is answered NAK and changes
\* nothing of the session; the session flag is raised only by an ACKed ENQ
\* and lowered only by an EOT, after which the next ENQ is ACKed again.
C5_EnqOnlyWhenNoSession ==
    [][ /\ srv_log'.ev = "ENQ" =>
            /\ (srv_log'.reply = ACK) <=> ~is_transfer_state
            /\ srv_log'.reply \in {ACK, NAK}
            /\ is_transfer_state'
            /\ is_transfer_state => UNCHANGED SessionState
        /\ is_transfer_state' # is_transfer_state =>
            \/ is_transfer_state' /\ srv_log'.ev = "ENQ"
                                  /\ srv_log'.reply = ACK
            \/ ~is_transfer_state' /\ srv_log'.ev = "EOT"
                                   /\ srv_log'.raised = "none"
      ]_srv_vars

\* C5 witness: an ENQ was refused inside an open session
C5_Witness ==
    /\ srv_log.ev = "ENQ" /\ srv_log.reply = NAK /\ is_transfer_state

\* C6: a malformed or checksum-failing message received in transfer is
\* answered NAK, reaches no record handler and leaves the chunk buffer as
\* it was, for ETB frames as well as CR ETX frames.
C6_InvalidMessageRejected ==
    [][ (srv_log'.ev = "MSG" /\ is_transfer_state
         /\ Invalid(srv_last_recv_data')) =>
            /\ srv_log'.reply = NAK
            /\ srv_log'.handled = 0
            /\ chunks' = chunks
      ]_srv_vars

AllEtb(cs) == \A i \in 1..Len(cs) : EtbTerminated(cs[i])

\* C7: a CR ETX frame received in transfer while the buffer holds n >= 1
\* ETB chunks makes the dispatcher run exactly once, on the join of the
\* buffered chunks followed by this frame, and empties the buffer.
C7_FinalFrameJoinsChunks ==
    [][ (srv_log'.ev = "MSG" /\ is_transfer_state
         /\ EtxTerminated(srv_last_recv_data') /\ ~Invalid(srv_last_recv_data')
         /\ chunks # <<>> /\ AllEtb(chunks)) =>
            /\ srv_log'.dispatched =
                   <<join(Append(chunks, srv_last_recv_data'))>>
            /\ chunks' = <<>>
      ]_srv_vars

\* C8: every (well-formed) ETB-terminated frame received in transfer is
\* appended to the buffer and ACKed without reaching the dispatcher,
\* whatever was handled before on the connection.
C8_EtbFrameBuffered ==
    [][ (srv_log'.ev = "MSG" /\ is_transfer_state
         /\ EtbTerminated(srv_last_recv_data')
         /\ ~Invalid(srv_last_recv_data')) =>
            /\ chunks' = Append(chunks, srv_last_recv_data')
            /\ srv_log'.reply = ACK
            /\ srv_log'.dispatched = <<>>
      ]_srv_vars

\* C9: in transfer a message is answered ACK exactly when handling it
\* raised nothing; whatever the dispatcher raises (NotAccepted included) is
\* caught, answered NAK, and the server stays in transfer with the channel
\* open.
C9_AckIffNoException ==
    [][ (srv_log'.ev = "MSG" /\ is_transfer_state) =>
            /\ (srv_log'.reply = ACK) <=> (srv_log'.caught = "none")
            /\ (srv_log'.reply = NAK) <=> (srv_log'.caught # "none")
            /\ srv_log'.raised = "none"
            /\ is_transfer_state'
            /\ ~srv_closed'
      ]_srv_vars

\* C10: once an EOT received in transfer is handled the server is back in
\* init (no session, single-byte tokenizer) with an empty chunk buffer.
C10_EotResetsServer ==
    (srv_log.ev = "EOT" /\ srv_log.raised = "none") =>
        /\ ~is_transfer_state
        /\ srv_terminator = "1"
        /\ chunks = <<>>

\* C11: a message that reaches the server while it is not in transfer is
\* answered with one NAK and nothing else, reaches neither the dispatcher
\* nor a record handler, and empties the chunk buffer, the input buffer and
\* the inbox; the server stays outside transfer with the channel open.
C11_MessageOutsideTransfer ==
    [][ (srv_log'.ev = "MSG" /\ ~is_transfer_state) =>
            /\ srv_log'.reply = NAK
            /\ srv_log'.raised = "none" /\ srv_log'.caught = "none"
            /\ srv_log'.dispatched = <<>> /\ srv_log'.handled = 0
            /\ chunks' = <<>>
            /\ srv_input_buffer' = <<>> /\ srv_inbox' = <<>>
            /\ srv_pc' = "idle"
            /\ ~is_transfer_state' /\ ~srv_closed'
      ]_srv_vars

\* C11 witness: a message was refused outside transfer and the refusal
\* dropped buffered chunks and pending input bytes
C11_Witness ==
    /\ srv_log.ev = "MSG" /\ srv_log.reply = NAK /\ ~is_transfer_state
    /\ srv_log.discarded[1] > 0 /\ srv_log.discarded[2] > 0
    /\ chunks = <<>> /\ srv_input_buffer = <<>> /\ srv_inbox = <<>>

\* C12: an ACK or a NAK dispatched by the server in any state raises
\* NotAccepted, an EOT dispatched outside transfer raises InvalidState; in
\* each case nothing is replied and the transfer flag, the tokenizer
\* terminator, the chunk buffer and the chunked-transfer flag stay as they
\* were.
C12_ForbiddenTokensRaise ==
    [][ (srv_log'.ev \in {"ACK", "NAK"}
         \/ (srv_log'.ev = "EOT" /\ ~is_transfer_state)) =>
            /\ srv_log'.raised = (IF srv_log'.ev = "EOT" THEN "InvalidState"
                                  ELSE "NotAccepted")
            /\ srv_log'.reply = 0
            /\ UNCHANGED <<is_transfer_state, srv_terminator, chunks,
                           is_chunked_transfer>>
      ]_srv_vars

\* C12 witness: an ACK was refused in transfer with chunks buffered
C12_Witness ==
    /\ srv_log.ev = "ACK" /\ srv_log.raised = "NotAccepted"
    /\ srv_log.reply = 0
    /\ is_transfer_state /\ srv_terminator = "CRLF|EOT" /\ chunks # <<>>

\* C13: every link-layer violation raised while a read event is handled
\* closes the connection it was raised on: on the server an ACK, a NAK or
\* an EOT outside transfer, on the client an ENQ, an EOT or a message.
C13_ViolationClosesConnection ==
    [][ /\ (srv_log'.ev \in {"ACK", "NAK", "EOT"}
            /\ srv_log'.raised \in {"NotAccepted", "InvalidState"})
               => srv_closed'
        /\ (cli'.ev \in {"ENQ", "EOT", "MSG"} /\ cli'.raised = "NotAccepted")
               => cli'.closed
      ]_vars

\* ------------------------------------------------------------------------
\* Client properties
\* ------------------------------------------------------------------------
Frames(items) == SelectSeq(items, IsFrame)

\* C1: with no max_message_size, every event puts at most one record frame
\* on the outbox, and only a received ACK or NAK puts one there: a frame
\* is never followed by another without an ACK or NAK in between.
C1_OneFramePerAnswer ==
    cli.max_message_size = NoLimit =>
        /\ Len(Frames(cli.pushed)) <= 1
        /\ Frames(cli.pushed) # <<>> => cli.ev \in {"ACK", "NAK"}

\* C1 witness: a NAK made the client push one (replacement) frame
C1_Witness ==
    /\ cli.max_message_size = NoLimit /\ cli.ev = "NAK"
    /\ Len(Frames(cli.pushed)) = 1

\* C2: while an ENQ is outstanding in init on an open channel, each of the
\* first retry_attempts negative events (NAK or timeout) pushes exactly one
\* more ENQ, and the next one raises Rejected and pushes nothing.
C2_EnqRetryBudget ==
    [][ (EnqOutstanding(cli) /\ ~cli.closed
         /\ cli'.ev \in {"NAK", "TIMEOUT"}) =>
            IF cli.neg_events < cli.retry_attempts
            THEN /\ cli'.pushed = << <<ENQ>> >>
                 /\ cli'.raised = "none"
                 /\ EnqOutstanding(cli')
            ELSE /\ cli'.pushed = <<>>
                 /\ cli'.raised = "Rejected"
      ]_cli

\* C2 witness: the budget of a client with retries is used up and the
\* next NAK is refused with Rejected
C2_Witness ==
    /\ cli.retry_attempts > 0 /\ cli.ev = "NAK" /\ cli.raised = "Rejected"
    /\ cli.neg_events = cli.retry_attempts + 1 /\ cli.state = "init"

\* C3: without chunking, the k-th record frame pushed after the session's
\* ENQ (with only frames in between) carries the sequence digit k mod 8, so
\* the first frame after a new ENQ, or after an EOT, carries 1 again.
C3_SequenceDigits ==
    cli.max_message_size = NoLimit =>
        \A i \in 1..Len(cli.pushed) :
            IsFrame(cli.pushed[i]) =>
                /\ i = Len(cli.pushed)
                /\ cli.session_frames >= 1
                /\ cli.pushed[i][2] = DigitByte(cli.session_frames % 8)

\* C3 witness: the eighth frame of a session, whose digit wrapped to 0
C3_Witness ==
    /\ cli.max_message_size = NoLimit /\ cli.session_frames = 8
    /\ Frames(cli.pushed) # <<>> /\ cli.pushed[1][2] = DigitByte(0)

\* ------------------------------------------------------------------------
\* Record-flow properties
\* ------------------------------------------------------------------------
\* the transition table as documented: previous type -> allowed next types
DocumentedFlow ==
    [p \in RecordTypes \cup {"None"} |->
        CASE p = "None" -> {"H"}
          [] p = "H" -> {"C", "M", "P", "L"}
          [] p = "P" -> {"C", "M", "O", "L"}
          [] p = "O" -> {"C", "M", "P", "O", "R", "L"}
          [] p = "R" -> {"C", "M", "P", "O", "R", "S", "L"}
          [] p = "S" -> {"C", "M", "P", "O", "R", "S", "L"}
          [] p = "C" -> RecordTypes
          [] p = "M" -> RecordTypes
          [] p = "L" -> {"H"}]

\* C4: the default record-flow state machine accepts record type t after
\* previous type p exactly when the documented table allows t after p.
C4_FlowTable ==
    sm_last.next \in RecordTypes =>
        (sm_last.accepted <=> sm_last.next \in DocumentedFlow[sm_last.prev])

\* the emitter wrapper and the user's generator behind it
EmitterState(c) ==
    <<c.head, c.tail, c.empty, c.trap, c.gen, c.gen_yields, c.gen_rec>>

\* C18: in every state of a connected client an ENQ, an EOT or a message
\* raises NotAccepted, pushes nothing, and leaves the protocol state, the
\* sequence counter, the record-flow state, the retry budget, the last
\* sent data and the emitter as they were.
C18_ClientRefusesTokens ==
    [][ cli'.ev \in {"ENQ", "EOT", "MSG"} =>
            /\ cli'.raised = "NotAccepted"
            /\ cli'.pushed = <<>>
            /\ cli'.state = cli.state
            /\ cli'.last_seq = cli.last_seq
            /\ cli'.records_sm = cli.records_sm
            /\ cli'.remain_attempts = cli.remain_attempts
            /\ cli'.retry_attempts = cli.retry_attempts
            /\ cli'.last_sent_data = cli.last_sent_data
            /\ EmitterState(cli') = EmitterState(cli)
      ]_cli

\* C18 witness: a message was refused in transfer after a record went out
C18_Witness ==
    /\ cli.ev = "MSG" /\ cli.raised = "NotAccepted" /\ cli.pushed = <<>>
    /\ cli.state = "transfer" /\ cli.last_seq > 1

\* C14: with max_message_size set, an event puts at most one frame on the
\* outbox: of a message that exceeds the size only the first chunk is pushed
\* and every further chunk waits for the ACK of the chunk before it.
C14_OneChunkPerAck ==
    cli.max_message_size # NoLimit => Len(Frames(cli.pushed)) <= 1

\* the sequence digit that follows the one of frame f
NextDigit(f) == DigitByte((f[2] - 48 + 1) % 8)

\* C15: when the client splits its messages into chunks, every frame it
\* pushes within a session carries the digit that follows (mod 8) the digit
\* of the frame pushed before it, within one event and from one event to
\* the next.
C15_ChunkDigitsConsecutive ==
    [][ cli.max_message_size # NoLimit =>
            \E fs \in {Frames(cli'.pushed)} :
                /\ \A i \in 1..(Len(fs) - 1) : fs[i + 1][2] = NextDigit(fs[i])
                /\ (fs # <<>> /\ IsFrame(cli.last_sent_data)
                    /\ cli.state \in {"opened", "transfer", "termination"})
                       => fs[1][2] = NextDigit(cli.last_sent_data)
      ]_cli

\* C16: when the timer expires while the client is in opened, transfer or
\* termination state, the client pushes EOT and schedules the close of the
\* connection.
C16_TimeoutEndsSession ==
    [][ (cli'.ev = "TIMEOUT"
         /\ cli.state \in {"opened", "transfer", "termination"}) =>
            /\ \E i \in 1..Len(cli'.pushed) : cli'.pushed[i] = <<EOT>>
            /\ cli'.closing
      ]_cli

\* C17: when the emitter yields a record that is no allowed successor of
\* the previous record of the session, the client raises the record-order
\* error (the AssertionError of the record-flow state machine), pushes no
\* frame for that record and ends the session by pushing EOT.
C17_RecordOrderEndsSession ==
    [][ (cli'.ev \in {"ACK", "NAK"} /\ cli'.raised = "AssertionError") =>
            /\ Frames(cli'.pushed) = <<>>
            /\ \E i \in 1..Len(cli'.pushed) : cli'.pushed[i] = <<EOT>>
      ]_cli

\* C20: a NAK received in opened state, while the header frame is
\* outstanding, is fatal: Rejected is raised, EOT is pushed and the close of
\* the connection is scheduled, no ENQ is pushed and the retry budget is
\* left alone.
C20_HeaderNakIsFatal ==
    [][ (cli'.ev = "NAK" /\ cli.state = "opened"
         /\ IsFrame(cli.last_sent_data)) =>
            /\ cli'.raised = "Rejected"
            /\ cli'.pushed = << <<EOT>>, CloseMark >>
            /\ cli'.closing
            /\ cli'.state = "init"
            /\ cli'.remain_attempts = cli.remain_attempts
      ]_cli

\* data is the frame that carries the record of type t yielded by the user's
\* emitter, under some sequence number
CarriesUserRecord(data, t) ==
    /\ t # "None"
    /\ \E seq \in 0..7 : data = encode_message(seq, <<UserItem(t).rec>>)

\* the value an answer delivers to the emitter
CallbackOf(ev) == IF ev = "ACK" THEN "True" ELSE "False"

\* C19: the user's emitter receives True as the result of yielding a record
\* exactly when the frame carrying that record was ACKed and False exactly
\* when it was NAKed: a value reaches a generator suspended at a record only
\* in answer to the frame of that record (never in answer to the ENQ, the
\* header or the terminator), an ACK or NAK that answers the frame of that
\* record reaches the generator, and the value is True for ACK and False for
\* NAK, in every session of the emitter.
C19_CallbackMatchesAnswer ==
    [][ /\ (cli'.delivered # "none" /\ cli.gen_rec # "None") =>
               /\ cli'.ev \in {"ACK", "NAK"}
               /\ cli'.delivered = CallbackOf(cli'.ev)
               /\ CarriesUserRecord(cli.last_sent_data, cli.gen_rec)
        /\ (cli'.ev \in {"ACK", "NAK"} /\ cli.gen # "done"
            /\ CarriesUserRecord(cli.last_sent_data, cli.gen_rec)) =>
               cli'.delivered = CallbackOf(cli'.ev)
      ]_cli

\* C21: when a NAK arrives in opened, transfer or termination state and the
\* emitter, fed False, raises an exception other than the end of its data,
\* the client pushes EOT, returns to init, schedules the close of the
\* connection and lets the exception out of the handler.
C21_NakExceptionTerminates ==
    [][ (cli'.ev = "NAK"
         /\ cli.state \in {"opened", "transfer", "termination"}
         /\ cli'.raised \in {"Rejected", "UserError", "AttributeError"}) =>
            /\ \E i \in 1..Len(cli'.pushed) : cli'.pushed[i] = <<EOT>>
            /\ cli'.state = "init"
            /\ cli'.closing
      ]_cli

\* a NAK arrived in transfer state and the user's emitter, fed False,
\* yielded a record from inside the session it was in
ReplacementYielded ==
    /\ cli'.ev = "NAK" /\ cli.state = "transfer"
    /\ cli'.delivered = "False" /\ cli'.gen_rec # "None"
    /\ cli'.gen_yields = cli.gen_yields + 1
    /\ cli'.gen = cli.gen /\ cli'.head = cli.head

\* C22: a replacement record the emitter yields when fed False after a NAK
\* in transfer state is checked against the record-flow state machine like
\* any other record and, when it is an allowed successor, is the one frame
\* the client pushes next, under the sequence number after the last one.
C22_ReplacementIsNextFrame ==
    [][ ReplacementYielded =>
            IF records_sm_call(cli.records_sm, cli'.gen_rec).raised = "none"
            THEN /\ cli'.raised = "none"
                 /\ cli'.pushed =
                        << encode_message(cli.last_seq + 1,
                                          <<UserItem(cli'.gen_rec).rec>>) >>
                 /\ cli'.last_seq = cli.last_seq + 1
                 /\ cli'.records_sm = cli'.gen_rec
                 /\ cli'.state = "transfer"
            ELSE /\ cli'.raised = "AssertionError"
                 /\ Frames(cli'.pushed) = <<>>
      ]_cli

\* C23: a client whose emitter yields no record pushes ENQ when the
\* connection is made, and answers the ACK of that ENQ by pushing EOT and
\* the close mark and nothing else: no header, no record frame.
C23_EmptyEmitter ==
    [][ /\ (cli'.ev = "CONNECT" /\ cli'.empty) =>
               cli'.pushed = << <<ENQ>> >>
        /\ (cli'.ev = "ACK" /\ cli.empty /\ EnqOutstanding(cli)) =>
               cli'.pushed = << <<EOT>>, CloseMark >>
      ]_cli

\* the text of a frame: what stands between the sequence digit and CR ETX
FrameText(data) == Slice(data, 2, Len(data) - 6)

\* what a piece of output is: ENQ, EOT, the close mark, the frame of the
\* header (H), of the terminator (L) or of another record (B)
OutputKind(data) ==
    CASE data = <<ENQ>> -> "ENQ"
      [] data = <<EOT>> -> "EOT"
      [] data = CloseMark -> "CLOSE"
      [] IsFrame(data) ->
            (IF FrameText(data) = encode_record(HeaderAstm) THEN "H"
             ELSE IF FrameText(data) = encode_record(TerminatorAstm) THEN "L"
             ELSE "B")
      [] OTHER -> "other"

\* the order of a session: ENQ opens it (first of all or after an EOT), the
\* header follows the ENQ, records follow the header or one another, the
\* terminator follows them, EOT follows the terminator; the close mark
\* follows an EOT
FollowsInSession(prev, cur) ==
    CASE cur = "ENQ" -> prev \in {"start", "EOT"}
      [] cur = "H" -> prev = "ENQ"
      [] cur = "B" -> prev \in {"H", "B"}
      [] cur = "L" -> prev \in {"H", "B"}
      [] cur = "EOT" -> prev = "L"
      [] cur = "CLOSE" -> prev = "EOT"
      [] OTHER -> FALSE

\* what was put on the outbox before the i-th piece of the event's output
PieceBefore(before, after, i) ==
    IF i > 1 THEN OutputKind(after.pushed[i - 1])
    ELSE IF before.last_sent_data = <<>> THEN "start"
    ELSE OutputKind(before.last_sent_data)

\* the record the emitter has handed over and the client has not pushed yet
NextRecordDue(before, after) ==
    IF before.trap # <<>> THEN Head(before.trap).rec
    ELSE UserItem(after.gen_rec).rec

\* C24: when every token and frame is ACKed, the output of a client whose
\* emitter runs one session after another is, session by session, ENQ, the
\* header frame, the records in the order the emitter yielded them, the
\* terminator frame and EOT: every piece of output follows the piece the
\* order of a session allows before it (the next ENQ directly the EOT), a
\* record frame carries the oldest record not pushed yet, and a record
\* yielded in a session is pushed before the connection is given up.  (An
\* emitter that yields nothing at all runs no such session.)
C24_SessionsInOrder ==
    [][ ~cli'.empty =>
            /\ \A i \in 1..Len(cli'.pushed) :
                   /\ FollowsInSession(PieceBefore(cli, cli', i),
                                       OutputKind(cli'.pushed[i]))
                   /\ OutputKind(cli'.pushed[i]) = "B" =>
                          FrameText(cli'.pushed[i])
                              = encode_record(NextRecordDue(cli, cli'))
            /\ (cli'.closing /\ cli'.gen # "out" /\ cli'.raised = "none") =>
                   cli'.trap = <<>>
      ]_cli

\* the value of an uppercase hexadecimal character, -1 for any other byte
HexValue(b) ==
    IF b >= 48 /\ b <= 57 THEN b - 48
    ELSE IF b >= 65 /\ b <= 70 THEN b - 55
    ELSE 0 - 1

\* C25: for every byte string s, make_checksum(s) returns exactly two
\* uppercase hexadecimal characters, and the number they spell is the sum
\* of the bytes of s modulo 256.
C25_ChecksumSound ==
    (codec_call.f = "make_checksum" /\ codec_call.pc = "returned") =>
        /\ codec_call.raised = "none"
        /\ Len(codec_call.out) = 2
        /\ HexValue(codec_call.out[1]) >= 0
        /\ HexValue(codec_call.out[2]) >= 0
        /\ 16 * HexValue(codec_call.out[1]) + HexValue(codec_call.out[2])
               = SumBytes(codec_call.s) % 256

\* a component without its trailing empty items
RECURSIVE StripEmptyItems(_)
StripEmptyItems(items) ==
    IF items # <<>> /\ items[Len(items)] \in {N, S(<<>>)}
    THEN StripEmptyItems(DropLast(items, 1))
    ELSE items

\* a record with the trailing empty items of its components, and of the
\* components of its repeated components, removed
Normalized(record) ==
    [i \in 1..Len(record) |->
        IF record[i].k = "c" THEN C(StripEmptyItems(record[i].v))
        ELSE IF record[i].k = "r"
        THEN R([j \in 1..Len(record[i].v) |->
                   C(StripEmptyItems(record[i].v[j].v))])
        ELSE record[i]]

\* C26: for every sequence number n and every list R of records built from
\* texts, absent values, components and repeated components,
\* decode_message(encode_message(n, R)) returns n mod 8, the records of R
\* with the trailing empty items of their components removed, and the
\* checksum the message carries.
C26_MessageRoundTrip ==
    (codec_call.f = "encode_message" /\ codec_call.pc = "returned") =>
        /\ codec_call.out.ok
        /\ codec_call.out.seq = codec_call.seq % 8
        /\ codec_call.out.records =
               [i \in 1..Len(codec_call.records) |->
                   Normalized(codec_call.records[i])]
        /\ codec_call.out.cs
               = make_checksum(Slice(codec_call.s, 1, Len(codec_call.s) - 4))

\* C27: every chunk that split(msg, size) yields is at most size bytes long;
\* every chunk but the last ends, before its checksum and CR LF, with ETB,
\* and the last ends there with CR ETX.
C27_ChunkEnvelope ==
    (codec_call.f = "split" /\ codec_call.pc = "returned"
     /\ codec_call.raised = "none") =>
        \A i \in 1..Len(codec_call.out) :
            /\ Len(codec_call.out[i]) <= codec_call.size
            /\ IF i < Len(codec_call.out)
               THEN EtbTerminated(codec_call.out[i])
               ELSE EtxTerminated(codec_call.out[i])

\* C28: for every well-formed single-frame message m, whatever its sequence
\* digit, and every chunk size split accepts, join(split(m, size)) is m
\* again: the texts of the chunks put together, under the sequence digit of
\* the first chunk, ended by CR ETX and a recomputed checksum.
C28_JoinUndoesSplit ==
    (codec_call.f = "split" /\ codec_call.pc = "joined") =>
        /\ codec_call.joined = codec_call.s
        /\ codec_call.joined[2] = codec_call.out[1][2]

\* C29: split(msg, size) yields k chunks whose sequence digits are s, s + 1,
\* ..., s + k - 1 (each modulo 8) in this order, s being the sequence digit
\* of msg; for every k >= 1, a single chunk included.
C29_SplitDigits ==
    (codec_call.f = "split" /\ codec_call.pc = "returned"
     /\ codec_call.raised = "none") =>
        \A i \in 1..Len(codec_call.out) :
            codec_call.out[i][2]
                = DigitByte((codec_call.s[2] - 48 + i - 1) % 8)

\* C30: split(msg, size) produces its chunks for every well-formed message
\* and every size >= 7; for every size < 7 it fails with an invalid chunk
\* size error and yields no chunk.
C30_SplitSizeLimit ==
    (codec_call.f = "split" /\ codec_call.pc = "returned") =>
        IF codec_call.size >= 7
        THEN codec_call.raised = "none" /\ codec_call.out # <<>>
        ELSE codec_call.raised = "AssertionError" /\ codec_call.out = <<>>

\* C31: is_chunked_message(msg) is true exactly when the byte at offset
\* len(msg) - 5 is ETB, for every byte string msg: one whose body holds
\* another ETB included, and false for one shorter than five bytes.
C31_ChunkedIffEtbAtOffset ==
    (codec_call.f = "is_chunked_message" /\ codec_call.pc = "returned") =>
        (codec_call.out
            <=> (/\ Len(codec_call.s) >= 5
                 /\ codec_call.s[Len(codec_call.s) - 4] = ETB))

\* the items other than the close mark in a list of queued items
QueuedData(items) == SelectSeq(items, LAMBDA x : x # CloseMark)

\* what the outbox is due for the data items given to Client.push: the item
\* itself, or its chunks when a limit is set and the item is longer
RECURSIVE DueFor(_, _)
DueFor(items, limit) ==
    IF items = <<>> THEN <<>>
    ELSE (IF limit # NoLimit /\ Len(Head(items)) > limit
          THEN split(Head(items), limit)
          ELSE <<Head(items)>>) \o DueFor(Tail(items), limit)

\* C32: every data item given to Client.push (ENQ, EOT or an encoded
\* message) is queued for transmission: unchanged when no limit is set or
\* the item is not longer than max_message_size, as the chunks of split
\* when it is longer; no item is dropped.
C32_PushQueuesEveryItem ==
    [][ QueuedData(cli'.pushed) = DueFor(cli'.given, cli'.max_message_size)
      ]_cli

\* C33: when the client terminates a session it switches its state to init
\* first and only then emits EOT: no EOT is pushed while the state of the
\* client is still opened, transfer or termination.
C33_InitBeforeEot ==
    [][ cli'.eot_state \notin {"opened", "transfer", "termination"} ]_cli

\* the timers that are armed: started, not cancelled, not yet expired
Armed(timers) == { i \in 1..Len(timers) : timers[i] = "waiting" }

\* C34: at any moment at most one inactivity timer is armed per connection:
\* arming a timer cancels and replaces the one before, also when the
\* re-arming of the timeout handler (through its push of ENQ) interleaves
\* with the re-arming that follows the dispatch of an incoming token.
C34_OneTimerArmed == Cardinality(Armed(thr.timers)) <= 1

\* C35: under every interleaving of the expiry of the inactivity timer
\* (on_timeout) and the dispatch of an incoming NAK in init state,
\* remain_attempts never drops below zero, and the client pushes at most
\* retry_attempts + 1 ENQ tokens before the handshake succeeds or Rejected
\* is raised.
C35_RetryBudgetUnderRaces ==
    /\ thr.remain >= 0
    /\ ~thr.rejected => thr.enqs <= thr.retry + 1

\* C36: with the default records_sm the validation of the record order in
\* one client is independent of every other client of the process: a record
\* is accepted under any interleaving with the sessions of another client
\* exactly when it is accepted by the client running alone.
C36_RecordOrderPerClient ==
    (sm_calls > 0 /\ sm_last.next \in RecordTypes) =>
        (sm_last.accepted <=> sm_last.alone)

\* C37: in transfer state on_message is invoked only with the bytes of one
\* complete message, from STX up to and including CR LF, however the
\* transport splits the bytes of the messages across read events.
C37_OnMessageGetsWholeMessage ==
    (is_transfer_state /\ srv_log.ev = "MSG") =>
        /\ StartsWith(srv_last_recv_data, <<STX>>)
        /\ EndsWith(srv_last_recv_data, CRLF)

\* C38: once the client has scheduled the close of the connection
\* (terminate with with_close), it never queues another ENQ, EOT or frame,
\* whatever ACKs, NAKs or timer expiries arrive afterwards: an event that
\* finds the close scheduled queues no data, and an event that schedules it
\* queues no data behind the close mark.
C38_NothingQueuedAfterClose ==
    [][ /\ cli.closing => QueuedData(cli'.pushed) = <<>>
        /\ \A i, j \in 1..Len(cli'.pushed) :
               (i < j /\ cli'.pushed[i] = CloseMark) =>
                   cli'.pushed[j] = CloseMark
      ]_cli

\* the step is no event of a token or message of the server
ServerSilent == cli'.ev \notin {"ACK", "NAK", "ENQ", "EOT", "MSG"}

\* C39: if the server never answers (from some moment on), a client with a
\* timeout configured eventually has its connection closed, after the ENQ
\* retry budget is used up by timeouts in init or after a timeout in any
\* later state: the connection does not stay open forever.
C39_SilentServerClosesConnection ==
    (<>[][ServerSilent]_cli) => <>cli.closed

\* the data the client queues in a step, behind the data it queued last
QueuedStream == <<cli.last_sent_data>> \o QueuedData(cli'.pushed)

\* C40: the client never queues two EOT tokens in a row: between two EOTs
\* it pushes there is at least one other pushed item (an ENQ or a frame),
\* also when terminate is called repeatedly.
C40_NoTwoEotInARow ==
    [][ \A i \in 1..(Len(QueuedStream) - 1) :
            ~(QueuedStream[i] = <<EOT>> /\ QueuedStream[i + 1] = <<EOT>>)
      ]_cli

\* C40 witness: a late ACK after the session was terminated: terminate is
\* called again with EOT as the last data sent and queues the close mark only
C40_Witness ==
    /\ cli.ev = "ACK" /\ cli.last_sent_data = <<EOT>>
    /\ cli.pushed = <<CloseMark>> /\ cli.closing

====
